---- MODULE Spec2Model ----
(***************************************************************************)
(* A model of build.py, the webOS .ipk packager: the manifest reader, the  *)
(* size estimator, the metadata generators, the tar and ar entry writers   *)
(* and build(), the package assembler.                                     *)
(*                                                                         *)
(* Text is modelled as a sequence of tokens.  In an entry name a token is  *)
(* either a path separator or a separator-free piece of the name; in a     *)
(* str payload a token is a code point; in a bytes payload it is a byte.   *)
(* An Optional[int] is <<>> for None and <<n>> for the integer n.          *)
(***************************************************************************)
EXTENDS Integers, Sequences, FiniteSets, TLC

VARIABLES
    tar,        \* the members of the TarFile under test, in stream order
    ar,         \* the members of the ArFile (build's outer archive), in stream order
    calls,      \* log of the tar_addfile / ar_addfile calls made so far
    pc,         \* the position of build()
    err,        \* the exception build() raised, "none" if none
    tree,       \* the file system under base_path
    tree0,      \* the file system under base_path when build() was called
    manifest,   \* appinfo.json: absent, malformed, or its field names
    output,     \* where the output path points
    scan,       \* the order in which the file system lists a directory
    appinfo,    \* build's local: the parsed manifest
    build_size, \* build's local `size': the running size
    packageinfo_data, \* build's local: the package-info document
    control_tar,\* the members of the control TarFile
    data_tar,   \* the members of the data TarFile
    walk,       \* the files the os.walk loop of build has yet to visit
    open,       \* the file handles and streams open now
    gen         \* the outcome of the last metadata generator applied

archiveVars == <<tar, calls>>

inputVars == <<tree0, manifest, output, scan>>

buildVars == <<pc, err, tree, appinfo, build_size, packageinfo_data, control_tar,
               data_tar, walk, open>>

vars == <<tar, ar, calls, pc, err, tree, tree0, manifest, output, scan, appinfo,
          build_size, packageinfo_data, control_tar, data_tar, walk, open, gen>>

--------------------------------------------------------------------------
(* Bounds of the model *)

MaxNameLen == 4
MaxTarCalls == 2
MaxSizeCalls == 1
MaxPayloadLen == 2
MaxNodes == 2
MaxFileSize == 2

--------------------------------------------------------------------------
(* Python helpers *)

None == <<>>

Some(n) == <<n>>

os_path_sep == "/"

RECURSIVE SeqsUpTo(_, _)
SeqsUpTo(S, n) ==
    IF n = 0 THEN {<<>>}
    ELSE LET shorter == SeqsUpTo(S, n - 1)
         IN shorter \cup {Append(s, x) : s \in {t \in shorter : Len(t) = n - 1}, x \in S}

ButLast(s) == SubSeq(s, 1, Len(s) - 1)

(* str.replace(old, new) for a one-token old and new *)
str_replace(s, old, new) == [i \in 1..Len(s) |-> IF s[i] = old THEN new ELSE s[i]]

(* str.split(sep): the pieces between the separators, empty pieces kept *)
RECURSIVE str_split(_, _)
str_split(s, sep) ==
    IF \A i \in 1..Len(s) : s[i] # sep THEN <<s>>
    ELSE LET k == CHOOSE i \in 1..Len(s) :
                      s[i] = sep /\ \A j \in 1..(i - 1) : s[j] # sep
         IN <<SubSeq(s, 1, k - 1)>> \o str_split(SubSeq(s, k + 1, Len(s)), sep)

(* sep.join(parts) *)
RECURSIVE str_join(_, _)
str_join(sep, parts) ==
    IF Len(parts) = 0 THEN <<>>
    ELSE IF Len(parts) = 1 THEN parts[1]
    ELSE parts[1] \o <<sep>> \o str_join(sep, Tail(parts))

(* str.encode("utf-8") of a sequence of code points below U+0800 *)
RECURSIVE encode_utf8(_)
encode_utf8(s) ==
    IF s = <<>> THEN <<>>
    ELSE (IF Head(s) < 128 THEN <<Head(s)>>
          ELSE <<192 + (Head(s) \div 64), 128 + (Head(s) % 64)>>)
         \o encode_utf8(Tail(s))

(* The FileData payloads: a str, a bytes, or a binary stream *)
StrData(s) == [kind |-> "str", content |-> s, seekable |-> FALSE]

BytesData(b) == [kind |-> "bytes", content |-> b, seekable |-> FALSE]

Stream(b, seekable) == [kind |-> "stream", content |-> b, seekable |-> seekable]

BytesIO(b) == Stream(b, TRUE)

--------------------------------------------------------------------------
(* The ar and tar entry writers *)

getnames(members) == [i \in 1..Len(members) |-> members[i].name]

InSeq(x, s) == \E i \in 1..Len(s) : s[i] = x

ArInfo(name, size, data) ==
    [name |-> name, size |-> size, perms |-> "0o666", uid |-> 0, gid |-> 0,
     data |-> data]

DirInfo(dirpath) ==
    [name |-> dirpath, type |-> "DIRTYPE", size |-> 0, mode |-> "0o777",
     uid |-> 1000, gid |-> 1000, data |-> <<>>]

FileInfo(name, size, data) ==
    [name |-> name, type |-> "REGTYPE", size |-> size, mode |-> "0o666",
     uid |-> 1000, gid |-> 1000, data |-> data]

(* a slip: the size of a text taken before it is encoded *)
ar_addfile_charlen(members, name, data, size) ==
    LET size1 == IF data.kind \in {"str", "bytes"} /\ size = None
                 THEN Some(Len(data.content)) ELSE size
        data1 == IF data.kind = "str" THEN BytesData(encode_utf8(data.content))
                 ELSE data
        data2 == IF data1.kind = "bytes" THEN BytesIO(data1.content) ELSE data1
        size2 == IF size1 = None /\ data2.seekable
                 THEN Some(Len(data2.content)) ELSE size1
    IN  IF size2 = None
        THEN [err |-> "ValueError", members |-> members]
        ELSE [err |-> "none",
              members |-> Append(members, ArInfo(name, size2[1], data2.content))]

ar_addfile(members, name, data, size) ==
    LET data1 == IF data.kind = "str" THEN BytesData(encode_utf8(data.content))
                 ELSE data
        size1 == IF data1.kind = "bytes" /\ size = None
                 THEN Some(Len(data1.content)) ELSE size
        data2 == IF data1.kind = "bytes" THEN BytesIO(data1.content) ELSE data1
        size2 == IF size1 = None /\ data2.seekable
                 THEN Some(Len(data2.content)) ELSE size1
    IN  IF size2 = None
        THEN [err |-> "ValueError", members |-> members]
        ELSE [err |-> "none",
              members |-> Append(members, ArInfo(name, size2[1], data2.content))]

(* lines 144-155: a directory entry for each ancestor not among the names *)
(* tar.getnames() returned before the loop, shallowest first              *)
(* a slip: the names already written are not consulted *)
RECURSIVE add_dirs_nocheck(_, _, _, _)
add_dirs_nocheck(members, names, dir_elements, n) ==
    IF n > Len(dir_elements) THEN members
    ELSE add_dirs_nocheck(
             Append(members, DirInfo(str_join("/", SubSeq(dir_elements, 1, n)))),
             names, dir_elements, n + 1)

(* a slip: the ancestors are written deepest first *)
RECURSIVE add_dirs_deepest_first(_, _, _, _)
add_dirs_deepest_first(members, names, dir_elements, n) ==
    IF n > Len(dir_elements) THEN members
    ELSE LET dirpath == str_join("/", SubSeq(dir_elements, 1, Len(dir_elements) + 1 - n))
         IN add_dirs_deepest_first(IF ~InSeq(dirpath, names)
                                   THEN Append(members, DirInfo(dirpath)) ELSE members,
                                   names, dir_elements, n + 1)

RECURSIVE add_dirs(_, _, _, _)
add_dirs(members, names, dir_elements, n) ==
    IF n > Len(dir_elements) THEN members
    ELSE LET dirpath == str_join("/", SubSeq(dir_elements, 1, n))
         IN add_dirs(IF ~InSeq(dirpath, names)
                     THEN Append(members, DirInfo(dirpath)) ELSE members,
                     names, dir_elements, n + 1)

tar_addfile(members, name, data, size) ==
    LET data1 == IF data.kind = "str" THEN BytesData(encode_utf8(data.content))
                 ELSE data
        size1 == IF data1.kind = "bytes" /\ size = None
                 THEN Some(Len(data1.content)) ELSE size
        data2 == IF data1.kind = "bytes" THEN BytesIO(data1.content) ELSE data1
        size2 == IF size1 = None /\ data2.seekable
                 THEN Some(Len(data2.content)) ELSE size1
    IN  IF size2 = None
        THEN [err |-> "ValueError", members |-> members]
        ELSE LET name1 == str_replace(name, os_path_sep, "/")
                 names == getnames(members)
                 dir_elements == ButLast(str_split(name1, "/"))
                 withdirs == add_dirs(members, names, dir_elements, 1)
             IN [err |-> "none",
                 members |-> Append(withdirs, FileInfo(name1, size2[1], data2.content))]

--------------------------------------------------------------------------
(* The file system under base_path.  Node 0 is base_path itself; nodes
   1..MaxNodes are files and directories of the application; one node more
   is appinfo.json and the last is a new file out.ipk in base_path, there
   only once build() has created it. *)

DIRECTORY_SIZE == 4096

DEB_VERSION == <<50, 46, 48, 10>>

AppinfoNode == MaxNodes + 1

OutNode == MaxNodes + 2

Nodes == 1..OutNode

NodeName(i) ==
    IF i = AppinfoNode THEN "appinfo.json"
    ELSE IF i = OutNode THEN "out.ipk" ELSE ToString(i)

IsFileNode(t, i) == t.kind[i] = "file"

IsDirNode(t, i) == t.kind[i] = "dir"

(* os.path.join(base, name), relative to base_path *)
RECURSIVE RelPath(_, _)
RelPath(t, i) ==
    IF t.parent[i] = 0 THEN <<NodeName(i)>>
    ELSE RelPath(t, t.parent[i]) \o <<os_path_sep, NodeName(i)>>

(* the entries of a set of nodes in the order the file system lists them *)
RECURSIVE Listed(_, _)
Listed(S, asc) ==
    IF S = {} THEN <<>>
    ELSE LET x == CHOOSE y \in S : \A z \in S : IF asc THEN y <= z ELSE y >= z
         IN <<x>> \o Listed(S \ {x}, asc)

(* os.walk(base_path), top-down: one (base, dirs, files) for base_path and
   for every directory below it, each before the directories it holds *)
RECURSIVE os_walk(_, _, _)
os_walk(t, asc, todo) ==
    IF todo = <<>> THEN <<>>
    ELSE LET base == Head(todo)
             kids == Listed({i \in Nodes : t.kind[i] # "absent" /\ t.parent[i] = base}, asc)
             dirs == SelectSeq(kids, LAMBDA i : IsDirNode(t, i))
             files == SelectSeq(kids, LAMBDA i : ~IsDirNode(t, i))
         IN <<[base |-> base, dirs |-> dirs, files |-> files]>>
            \o os_walk(t, asc, dirs \o Tail(todo))

RECURSIVE SumSizes(_, _)
SumSizes(t, files) ==
    IF files = <<>> THEN 0 ELSE t.size[Head(files)] + SumSizes(t, Tail(files))

RECURSIVE calc_size_loop(_, _, _)
calc_size_loop(t, steps, total) ==
    IF steps = <<>> THEN total
    ELSE calc_size_loop(t, Tail(steps),
             total + DIRECTORY_SIZE * Len(Head(steps).dirs)
                   + SumSizes(t, Head(steps).files))

(* a slip: only base_path itself is listed, not the directories below it *)
calc_size_toplevel(t, asc) == calc_size_loop(t, SubSeq(os_walk(t, asc, <<0>>), 1, 1), 0)

calc_size(t, asc) == calc_size_loop(t, os_walk(t, asc, <<0>>), 0)

--------------------------------------------------------------------------
(* The manifest reader and the metadata generators.  A document is a
   sequence of tokens: a field value, a piece of fixed text or a line
   break; its length in bytes is taken as its number of tokens. *)

FieldNames == {"id", "version", "title", "vendor", "icon", "size"}

FieldValue(f) ==
    CASE f = "id" -> "x.y"
      [] f = "version" -> "0.1"
      [] f = "title" -> "Title"
      [] f = "vendor" -> "Vendor"
      [] OTHER -> "value"

Parsed(fields) == [f \in fields |-> FieldValue(f)]

Has(info, f) == f \in DOMAIN info

Ok(v) == [err |-> "none", value |-> v]

Raise(e) == [err |-> e, value |-> <<>>]

(* a slip: a missing or unreadable manifest is replaced by a default one *)
get_appinfo_lenient(m) ==
    IF m.file = "ok" THEN Ok(Parsed(m.fields))
    ELSE Ok(Parsed({"id", "version", "title", "vendor"}))

get_appinfo(m) ==
    IF m.file = "absent" THEN Raise("ValueError")
    ELSE IF m.file = "malformed" THEN Raise("JSONDecodeError")
    ELSE Ok(Parsed(m.fields))

gen_filename(info) ==
    IF ~Has(info, "id") \/ ~Has(info, "version") THEN Raise("KeyError")
    ELSE Ok(<<info["id"], "_", info["version"], "_all.ipk">>)

gen_packageinfo(info) ==
    IF \E f \in {"id", "title", "vendor", "version"} : ~Has(info, f)
    THEN Raise("KeyError")
    ELSE LET data == <<"{", "\n",
                       "app: ", info["id"], ",", "\n",
                       "id: ", info["id"], ",", "\n",
                       "loc_name: ", info["title"], ",", "\n",
                       "vendor: ", info["vendor"], ",", "\n",
                       "version: ", info["version"], "\n",
                       "}">> \o <<"\n">>
         IN Ok(str_replace(data, "\r\n", "\n"))

(* CONTROL_TEMPLATE.format(size=size, **appinfo): a manifest field named
   size is a second value for the keyword size, a TypeError of the call *)
gen_control(info, sz) ==
    IF Has(info, "size") THEN Raise("TypeError")
    ELSE IF ~Has(info, "id") \/ ~Has(info, "version") THEN Raise("KeyError")
    ELSE LET control == <<"Package: ", info["id"], "\n",
                          "Version: ", info["version"], "\n",
                          "Section: misc", "\n",
                          "Priority: optional", "\n",
                          "Architecture: all", "\n",
                          "Installed-Size: ", ToString(sz), "\n",
                          "Maintainer: N/A <nobody@example.com>", "\n",
                          "Description: This is a webOS application.", "\n",
                          "webOS-Package-Format-Version: 2", "\n",
                          "webOS-Packager-Version: x.y.x", "\n">>
         IN Ok(str_replace(control, "\r\n", "\n"))

--------------------------------------------------------------------------
(* build(base_path, output) *)

NoGen == [fn |-> "none", err |-> "none", value |-> <<>>]

NoTree == [kind |-> <<>>, parent |-> <<>>, size |-> <<>>]

BuildIdle ==
    /\ pc = "idle"
    /\ err = "none"
    /\ tree = NoTree
    /\ tree0 = NoTree
    /\ manifest = [file |-> "absent", fields |-> {}]
    /\ output = [kind |-> "outside", node |-> 0]
    /\ scan = TRUE
    /\ appinfo = <<>>
    /\ build_size = 0
    /\ packageinfo_data = <<>>
    /\ control_tar = <<>>
    /\ data_tar = <<>>
    /\ walk = <<>>
    /\ open = {}

Required == {"id", "version", "title", "vendor"}

Manifests ==
    {[file |-> "absent", fields |-> {}], [file |-> "malformed", fields |-> {}]}
    \cup {[file |-> "ok", fields |-> F] :
             F \in {Required, Required \cup {"icon"}, Required \cup {"size"},
                    Required \ {"vendor"}}}

(* the application's files and directories: a node lies in base_path or in
   a directory of a lower number *)
AppTrees ==
    {t \in [kind : [1..MaxNodes -> {"absent", "dir", "file"}],
            parent : [1..MaxNodes -> 0..MaxNodes],
            size : [1..MaxNodes -> 0..MaxFileSize]] :
        \A i \in 1..MaxNodes :
            /\ t.parent[i] < i
            /\ t.parent[i] # 0 => (t.kind[t.parent[i]] = "dir" /\ t.kind[i] # "absent")
            /\ t.kind[i] # "file" => t.size[i] = 0}

(* the tree with appinfo.json of manifest m (a byte per field) and no out.ipk *)
WithManifest(t, m) ==
    [kind |-> [i \in Nodes |->
                  IF i = AppinfoNode
                  THEN (IF m.file = "absent" THEN "absent" ELSE "file")
                  ELSE IF i = OutNode THEN "absent" ELSE t.kind[i]],
     parent |-> [i \in Nodes |-> IF i > MaxNodes THEN 0 ELSE t.parent[i]],
     size |-> [i \in Nodes |->
                  IF i = AppinfoNode THEN Cardinality(m.fields)
                  ELSE IF i = OutNode THEN 0 ELSE t.size[i]]]

(* the output path: outside base_path, a new file out.ipk in base_path, or
   an existing file or directory of the application *)
Outputs(t) ==
    {[kind |-> "outside", node |-> 0], [kind |-> "new", node |-> OutNode]}
    \cup {[kind |-> "existing", node |-> i] : i \in {j \in 1..MaxNodes : t.kind[j] # "absent"}}

InitBuild ==
    /\ tar = <<>>
    /\ ar = <<>>
    /\ calls = <<>>
    /\ gen = NoGen
    /\ pc = "start"
    /\ err = "none"
    /\ manifest \in Manifests
    /\ \E t \in AppTrees : tree0 = WithManifest(t, manifest)
    /\ tree = tree0
    /\ output \in Outputs(tree0)
    /\ scan \in BOOLEAN
    /\ appinfo = <<>>
    /\ build_size = 0
    /\ packageinfo_data = <<>>
    /\ control_tar = <<>>
    /\ data_tar = <<>>
    /\ walk = <<>>
    /\ open = {}

Fail(e, closed) ==
    /\ pc' = "failed"
    /\ err' = e
    /\ open' = open \ closed

(* line 171 *)
LoadManifest ==
    /\ pc = "start"
    /\ LET r == get_appinfo(manifest)
       IN IF r.err # "none"
          THEN Fail(r.err, {}) /\ UNCHANGED appinfo
          ELSE pc' = "calc" /\ appinfo' = r.value /\ UNCHANGED <<err, open>>
    /\ UNCHANGED <<tar, ar, calls, gen, inputVars, tree, build_size, packageinfo_data,
                   control_tar, data_tar, walk>>

(* line 172 *)
CalcSize ==
    /\ pc = "calc"
    /\ build_size' = calc_size(tree, scan)
    /\ pc' = "sized"
    /\ UNCHANGED <<tar, ar, calls, gen, inputVars, tree, err, appinfo,
                   packageinfo_data, control_tar, data_tar, walk, open>>

(* lines 173-178 *)
AddOverheads ==
    /\ pc = "sized"
    /\ LET r == gen_packageinfo(appinfo)
       IN IF r.err # "none"
          THEN Fail(r.err, {}) /\ UNCHANGED <<build_size, packageinfo_data>>
          ELSE /\ pc' = "open"
               /\ packageinfo_data' = r.value
               /\ build_size' = build_size + 4 * DIRECTORY_SIZE + 2 * DIRECTORY_SIZE + Len(r.value)
               /\ UNCHANGED <<err, open>>
    /\ UNCHANGED <<tar, ar, calls, gen, inputVars, tree, appinfo, control_tar,
                   data_tar, walk>>

(* open(output, "wb"): the file is created, or cut to no bytes; what the
   ArFile writes stays in the handle's buffer until it is closed *)
Created(t, i) ==
    [t EXCEPT !.kind[i] = "file", !.size[i] = 0]

(* line 180 *)
OpenOutput ==
    /\ pc = "open"
    /\ IF output.kind = "existing" /\ IsDirNode(tree, output.node)
       THEN Fail("IsADirectoryError", {}) /\ UNCHANGED tree
       ELSE /\ pc' = "debian"
            /\ tree' = IF output.kind = "outside" THEN tree
                       ELSE Created(tree, output.node)
            /\ open' = open \cup {"output"}
            /\ UNCHANGED err
    /\ UNCHANGED <<tar, ar, calls, gen, inputVars, appinfo, build_size, packageinfo_data,
                   control_tar, data_tar, walk>>

(* a slip: the version marker is left out *)
AddDebianBinary_skipped ==
    /\ pc = "debian"
    /\ pc' = "control"
    /\ UNCHANGED <<tar, ar, calls, gen, inputVars, tree, err, appinfo, build_size,
                   packageinfo_data, control_tar, data_tar, walk, open>>

(* line 182 *)
AddDebianBinary ==
    /\ pc = "debian"
    /\ LET r == ar_addfile(ar, <<"debian-binary">>, BytesData(DEB_VERSION), None)
       IN IF r.err # "none"
          THEN Fail(r.err, {}) /\ UNCHANGED ar
          ELSE pc' = "control" /\ ar' = r.members /\ UNCHANGED <<err, open>>
    /\ UNCHANGED <<tar, calls, gen, inputVars, tree, appinfo, build_size,
                   packageinfo_data, control_tar, data_tar, walk>>

(* lines 184-185 *)
OpenControl ==
    /\ pc = "control"
    /\ pc' = "control_open"
    /\ control_tar' = <<>>
    /\ open' = open \cup {"controlfh", "control_tarfh"}
    /\ UNCHANGED <<tar, ar, calls, gen, inputVars, tree, err, appinfo, build_size,
                   packageinfo_data, data_tar, walk>>

(* lines 186-188: an exception leaves both with blocks *)
WriteControl ==
    /\ pc = "control_open"
    /\ LET d == gen_control(appinfo, build_size)
           r == IF d.err # "none" THEN [err |-> d.err, members |-> control_tar]
                ELSE tar_addfile(control_tar, <<"control">>, BytesData(d.value), None)
       IN IF r.err # "none"
          THEN Fail(r.err, {"controlfh", "control_tarfh"}) /\ UNCHANGED control_tar
          ELSE /\ pc' = "control_written"
               /\ control_tar' = r.members
               /\ open' = open \ {"control_tarfh"}
               /\ UNCHANGED err
    /\ UNCHANGED <<tar, ar, calls, gen, inputVars, tree, appinfo, build_size,
                   packageinfo_data, data_tar, walk>>

(* the bytes of a closed gzip tar stream: a token for the header of each
   member, a token for its data if it has any, and the end-of-archive
   token; its length in bytes is taken as its number of tokens *)
RECURSIVE TarGz(_)
TarGz(members) ==
    IF members = <<>> THEN <<[block |-> "end", name |-> <<>>]>>
    ELSE <<[block |-> "header", name |-> Head(members).name]>>
         \o (IF Head(members).size > 0
             THEN <<[block |-> "data", name |-> Head(members).name]>> ELSE <<>>)
         \o TarGz(Tail(members))

(* line 189, and the end of the with block of line 184 *)
AppendControl ==
    /\ pc = "control_written"
    /\ LET r == ar_addfile(ar, <<"control.tar.gz">>, BytesIO(TarGz(control_tar)), None)
       IN IF r.err # "none"
          THEN Fail(r.err, {"controlfh"}) /\ UNCHANGED ar
          ELSE /\ pc' = "data"
               /\ ar' = r.members
               /\ open' = open \ {"controlfh"}
               /\ UNCHANGED err
    /\ UNCHANGED <<tar, calls, gen, inputVars, tree, appinfo, build_size,
                   packageinfo_data, control_tar, data_tar, walk>>

RECURSIVE FilesOf(_)
FilesOf(steps) ==
    IF steps = <<>> THEN <<>> ELSE Head(steps).files \o FilesOf(Tail(steps))

(* lines 191-195: the files os.walk will yield, in its order *)
OpenData ==
    /\ pc = "data"
    /\ pc' = "data_walk"
    /\ data_tar' = <<>>
    /\ walk' = FilesOf(os_walk(tree, scan, <<0>>))
    /\ open' = open \cup {"datafh", "data_tarfh"}
    /\ UNCHANGED <<tar, ar, calls, gen, inputVars, tree, err, appinfo, build_size,
                   packageinfo_data, control_tar>>

output_base(info) == <<"usr", "/", "palm", "/", "applications", "/", info["id"]>>

(* line 204: open(input_file, "rb") *)
OpenSourceFile ==
    /\ pc = "data_walk"
    /\ walk # <<>>
    /\ pc' = "data_file"
    /\ open' = open \cup {"fh"}
    /\ UNCHANGED <<tar, ar, calls, gen, inputVars, tree, err, appinfo, build_size,
                   packageinfo_data, control_tar, data_tar, walk>>

(* line 204, the file cannot be read: an OSError leaves the with blocks *)
OpenSourceFileFails ==
    /\ pc = "data_walk"
    /\ walk # <<>>
    /\ Fail("OSError", {"datafh", "data_tarfh"})
    /\ UNCHANGED <<tar, ar, calls, gen, inputVars, tree, appinfo, build_size,
                   packageinfo_data, control_tar, data_tar, walk>>

FileContent(t, i) == [k \in 1..t.size[i] |-> 0]

(* lines 199-205 *)
AddSourceFile ==
    /\ pc = "data_file"
    /\ LET f == Head(walk)
           rel_file == RelPath(tree, f)
           archive_path == output_base(appinfo) \o <<os_path_sep>> \o rel_file
           r == tar_addfile(data_tar, archive_path, Stream(FileContent(tree, f), TRUE), None)
       IN IF r.err # "none"
          THEN Fail(r.err, {"fh", "datafh", "data_tarfh"}) /\ UNCHANGED <<data_tar, walk>>
          ELSE /\ pc' = "data_walk"
               /\ data_tar' = r.members
               /\ walk' = Tail(walk)
               /\ open' = open \ {"fh"}
               /\ UNCHANGED err
    /\ UNCHANGED <<tar, ar, calls, gen, inputVars, tree, appinfo, build_size,
                   packageinfo_data, control_tar>>

packageinfo_name(info) ==
    <<"usr", "/", "palm", "/", "packages", "/", info["id"], "/", "packageinfo.json">>

(* lines 207-210 *)
AddPackageinfo ==
    /\ pc = "data_walk"
    /\ walk = <<>>
    /\ LET d == gen_packageinfo(appinfo)
           r == IF d.err # "none" THEN [err |-> d.err, members |-> data_tar]
                ELSE tar_addfile(data_tar, packageinfo_name(appinfo), BytesData(d.value), None)
       IN IF r.err # "none"
          THEN Fail(r.err, {"datafh", "data_tarfh"})
               /\ UNCHANGED <<data_tar, packageinfo_data>>
          ELSE /\ pc' = "data_written"
               /\ packageinfo_data' = d.value
               /\ data_tar' = r.members
               /\ open' = open \ {"data_tarfh"}
               /\ UNCHANGED err
    /\ UNCHANGED <<tar, ar, calls, gen, inputVars, tree, appinfo, build_size,
                   control_tar, walk>>

(* line 211, and the end of the with block of line 191; build() returns *)
AppendData ==
    /\ pc = "data_written"
    /\ LET r == ar_addfile(ar, <<"data.tar.gz">>, BytesIO(TarGz(data_tar)), None)
       IN IF r.err # "none"
          THEN Fail(r.err, {"datafh"}) /\ UNCHANGED ar
          ELSE /\ pc' = "done"
               /\ ar' = r.members
               /\ open' = open \ {"datafh"}
               /\ UNCHANGED err
    /\ UNCHANGED <<tar, calls, gen, inputVars, tree, appinfo, build_size,
                   packageinfo_data, control_tar, data_tar, walk>>

build ==
    \/ LoadManifest
    \/ CalcSize
    \/ AddOverheads
    \/ OpenOutput
    \/ AddDebianBinary
    \/ OpenControl
    \/ WriteControl
    \/ AppendControl
    \/ OpenData
    \/ OpenSourceFile
    \/ OpenSourceFileFails
    \/ AddSourceFile
    \/ AddPackageinfo
    \/ AppendData

SpecBuild == InitBuild /\ [][build]_vars

--------------------------------------------------------------------------
(* The metadata generators applied to a parsed manifest with any set of
   field names (specification SpecGen) *)

GenSizes == {0, 12345}

InitGen ==
    /\ tar = <<>>
    /\ ar = <<>>
    /\ calls = <<>>
    /\ BuildIdle
    /\ gen = NoGen

Generated(fn, r) == [fn |-> fn, err |-> r.err, value |-> r.value]

LoadAnyManifest ==
    /\ gen.fn = "none"
    /\ appinfo = <<>>
    /\ \E F \in SUBSET FieldNames :
           /\ manifest' = [file |-> "ok", fields |-> F]
           /\ appinfo' = get_appinfo(manifest').value
    /\ gen' = Generated("get_appinfo", Ok(<<>>))
    /\ UNCHANGED <<tar, ar, calls, pc, err, tree, tree0, output, scan, build_size,
                   packageinfo_data, control_tar, data_tar, walk, open>>

GenFilename ==
    /\ gen.fn # "none"
    /\ gen' = Generated("gen_filename", gen_filename(appinfo))
    /\ UNCHANGED <<tar, ar, calls, inputVars, buildVars>>

GenPackageinfo ==
    /\ gen.fn # "none"
    /\ gen' = Generated("gen_packageinfo", gen_packageinfo(appinfo))
    /\ UNCHANGED <<tar, ar, calls, inputVars, buildVars>>

GenControl ==
    /\ gen.fn # "none"
    /\ \E sz \in GenSizes : gen' = Generated("gen_control", gen_control(appinfo, sz))
    /\ UNCHANGED <<tar, ar, calls, inputVars, buildVars>>

NextGen == LoadAnyManifest \/ GenFilename \/ GenPackageinfo \/ GenControl

SpecGen == InitGen /\ [][NextGen]_vars

--------------------------------------------------------------------------
(* Sequences of tar_addfile calls on one archive (specification SpecTar) *)

NameAlphabet == {"a", "/"}

EntryNames == SeqsUpTo(NameAlphabet, MaxNameLen) \ {<<>>}

(* every entry carries the same one-byte in-memory payload: the payload
   kinds are the subject of SpecSize *)
TarPayloads == {BytesData(<<0>>)}

Call(fn, name, data, size, e) ==
    [fn |-> fn, name |-> name, data |-> data, size |-> size, err |-> e]

InitArchive ==
    /\ tar = <<>>
    /\ ar = <<>>
    /\ calls = <<>>
    /\ BuildIdle
    /\ gen = NoGen

TarAddFile(name, data, size) ==
    LET r == tar_addfile(tar, name, data, size)
    IN  /\ tar' = r.members
        /\ calls' = Append(calls, Call("tar_addfile", name, data, size, r.err))
        /\ UNCHANGED <<ar, inputVars, buildVars, gen>>

ArAddFile(name, data, size) ==
    LET r == ar_addfile(ar, name, data, size)
    IN  /\ ar' = r.members
        /\ calls' = Append(calls, Call("ar_addfile", name, data, size, r.err))
        /\ UNCHANGED <<tar, inputVars, buildVars, gen>>

TarCall ==
    /\ Len(calls) < MaxTarCalls
    /\ \E name \in EntryNames, data \in TarPayloads : TarAddFile(name, data, None)

NextTar == TarCall

SpecTar == InitArchive /\ [][NextTar]_vars

--------------------------------------------------------------------------
(* Single calls with every kind of payload (specification SpecSize) *)

CodePoints == {97, 233}

Strs == SeqsUpTo(CodePoints, MaxPayloadLen)

Bytes == SeqsUpTo({0}, MaxPayloadLen)

Payloads ==
    {StrData(s) : s \in Strs} \cup {BytesData(b) : b \in Bytes}
    \cup {Stream(b, k) : b \in Bytes, k \in BOOLEAN}

Sizes == {None} \cup {Some(n) : n \in 0..(MaxPayloadLen + 1)}

SizeNames == {<<"f">>, <<"d", "/", "f">>}

TarSizeCall ==
    /\ Len(calls) < MaxSizeCalls
    /\ \E name \in SizeNames, data \in Payloads, size \in Sizes :
           TarAddFile(name, data, size)

ArSizeCall ==
    /\ Len(calls) < MaxSizeCalls
    /\ \E name \in SizeNames, data \in Payloads, size \in Sizes :
           ArAddFile(name, data, size)

NextSize == TarSizeCall \/ ArSizeCall

SpecSize == InitArchive /\ [][NextSize]_vars

--------------------------------------------------------------------------
(* Claims about the tar entry writer *)

IsDir(m) == m.type = "DIRTYPE"

FileEntries(members) == SelectSeq(members, LAMBDA m : ~IsDir(m))

OkCalls == SelectSeq(calls, LAMBDA c : c.err = "none")

(* the path prefixes of a name: what precedes each of its separators *)
Ancestors(name) == {SubSeq(name, 1, i - 1) : i \in {j \in 1..Len(name) : name[j] = "/"}}

(* C2: no directory name is written to one archive as a directory entry
   more than once, whatever the names appended and their order *)
C2_NoDuplicateDirectory ==
    \A i, j \in 1..Len(tar) :
        (i < j /\ IsDir(tar[i]) /\ IsDir(tar[j])) => tar[i].name # tar[j].name

(* two entries were appended under one directory, which was written once *)
C2_Witness ==
    /\ Len(OkCalls) = 2
    /\ \E d \in 1..Len(tar) :
           /\ IsDir(tar[d])
           /\ Cardinality({k \in 1..Len(tar) :
                  ~IsDir(tar[k]) /\ tar[d].name \in Ancestors(tar[k].name)}) = 2

(* C3 as stated: entries are in call order and every ancestor of an entry
   has a directory entry earlier in the stream *)
C3_Original ==
    /\ getnames(FileEntries(tar)) = getnames(OkCalls)
    /\ \A k \in 1..Len(tar) :
           ~IsDir(tar[k]) =>
               \A p \in Ancestors(tar[k].name) :
                   \E j \in 1..(k - 1) : IsDir(tar[j]) /\ tar[j].name = p

(* C3 amended: entries are in call order; every ancestor of an entry names
   an earlier entry of the stream, a directory entry unless that name was
   appended as a file first, and then no directory entry bears it; the
   directory entries a call writes come shallowest first, directly before
   the entry they lead to *)
C3_AncestorsPrecede ==
    /\ getnames(FileEntries(tar)) = getnames(OkCalls)
    /\ \A k \in 1..Len(tar) :
           ~IsDir(tar[k]) =>
               \A p \in Ancestors(tar[k].name) :
                   \E j \in 1..(k - 1) :
                       /\ tar[j].name = p
                       /\ \/ IsDir(tar[j])
                          \/ \A i \in 1..Len(tar) : IsDir(tar[i]) => tar[i].name # p
    /\ \A j \in 1..Len(tar) :
           IsDir(tar[j]) =>
               /\ j < Len(tar)
               /\ tar[j].name \in Ancestors(tar[j + 1].name)

(* one call wrote two ancestors, and a later call found them present *)
C3_Witness ==
    /\ Len(OkCalls) = 2
    /\ Len(tar) = 4
    /\ IsDir(tar[1]) /\ IsDir(tar[2]) /\ ~IsDir(tar[3]) /\ ~IsDir(tar[4])
    /\ Ancestors(tar[4].name) = {tar[1].name, tar[2].name}

--------------------------------------------------------------------------
(* Claims about build() *)

ArNames == <<<<"debian-binary">>, <<"control.tar.gz">>, <<"data.tar.gz">>>>

(* C1: the outer archive only ever holds debian-binary, control.tar.gz and
   data.tar.gz, appended once each in that order; a build that completes
   has appended all three, and debian-binary is the four bytes "2.0\n" *)
C1_ArEntries ==
    /\ Len(ar) <= 3
    /\ getnames(ar) = SubSeq(ArNames, 1, Len(ar))
    /\ pc = "done" =>
           /\ Len(ar) = 3
           /\ ar[1].data = <<50, 46, 48, 10>>
           /\ ar[1].size = 4

(* a build has completed and written its three entries *)
C1_Witness ==
    /\ pc = "done"
    /\ Len(ar) = 3
    /\ Len(data_tar) > 0

(* C5 as stated: when build() has returned, normally or by an error, every
   handle and stream it opened is closed *)
C5_AllClosedOnReturn ==
    pc \in {"done", "failed"} => open = {}

(* C6: with appinfo.json absent or unparsable, build() fails, and at no
   point is the output opened, created or cut, nor anything written *)
C6_NoOutputWithoutManifest ==
    manifest.file \in {"absent", "malformed"} =>
        /\ pc \in {"start", "failed"}
        /\ "output" \notin open
        /\ tree = tree0
        /\ ar = <<>>

(* a build with no manifest has failed, its output path an existing file
   of some bytes that is still whole *)
C6_Witness ==
    /\ pc = "failed"
    /\ manifest.file = "absent"
    /\ output.kind = "existing"
    /\ IsFileNode(tree, output.node)
    /\ tree.size[output.node] > 0

RECURSIVE SumOver(_, _)
SumOver(S, f) ==
    IF S = {} THEN 0
    ELSE LET x == CHOOSE y \in S : TRUE IN f[x] + SumOver(S \ {x}, f)

FileNodes(t) == {i \in Nodes : IsFileNode(t, i)}

DirNodes(t) == {i \in Nodes : IsDirNode(t, i)}

(* C7 as stated: calc_size counts base_path itself among the directories *)
C7_Original ==
    pc = "sized" =>
        build_size = SumOver(FileNodes(tree), tree.size)
                     + 4096 * (Cardinality(DirNodes(tree)) + 1)

(* C7 amended: calc_size(T) is the sum of the sizes of the files in T plus
   4096 for each directory below T; T itself is not counted *)
C7_CalcSize ==
    pc = "sized" =>
        build_size = SumOver(FileNodes(tree), tree.size)
                     + 4096 * Cardinality(DirNodes(tree))

(* calc_size has run on a tree with a directory that holds a file of some
   bytes *)
C7_Witness ==
    /\ pc = "sized"
    /\ \E d \in DirNodes(tree) :
           \E f \in FileNodes(tree) : tree.parent[f] = d /\ tree.size[f] > 0

(* the name of the data tar entry of a file of the source tree *)
InstalledName(t, i) ==
    <<"usr", "/", "palm", "/", "applications", "/", "x.y", "/">> \o RelPath(t, i)

(* C8 as stated: a completed build's data tar holds one file entry for
   each regular file of the source tree build() was given, under its
   installed name and with its size, the package-info entry, and no other
   file entry *)
C8_DataTarFiles ==
    pc = "done" =>
        LET files == FileEntries(data_tar)
            n == Len(files)
        IN  /\ n = Cardinality(FileNodes(tree0)) + 1
            /\ \A i \in FileNodes(tree0) :
                   \E k \in 1..(n - 1) :
                       /\ files[k].name = InstalledName(tree0, i)
                       /\ files[k].size = tree0.size[i]
            /\ files[n].name
                   = <<"usr", "/", "palm", "/", "packages", "/", "x.y", "/", "packageinfo.json">>
            /\ files[n].data = gen_packageinfo(appinfo).value

(* the Installed-Size field of a control document *)
InstalledSizeOf(doc) ==
    doc[(CHOOSE i \in 1..Len(doc) : doc[i] = "Installed-Size: ") + 1]

(* C10 as stated: the Installed-Size of a completed build is the footprint
   of its data tar, the sizes of its file entries plus 4096 for each of
   its directory entries *)
C10_InstalledSizeIsFootprint ==
    pc = "done" =>
        LET files == {k \in 1..Len(data_tar) : ~IsDir(data_tar[k])}
            dirs == {k \in 1..Len(data_tar) : IsDir(data_tar[k])}
        IN InstalledSizeOf(control_tar[1].data)
               = ToString(SumOver(files, [k \in files |-> data_tar[k].size])
                          + 4096 * Cardinality(dirs))

--------------------------------------------------------------------------
(* Claims about the metadata generators *)

RequiredBy(fn) ==
    IF fn = "gen_packageinfo" THEN {"id", "version", "title", "vendor"}
    ELSE {"id", "version"}

(* C9 as stated: a generator fails only when a manifest field it requires
   is missing; no additional field makes it fail *)
C9_FailsOnlyOnMissingField ==
    gen.fn \in {"gen_filename", "gen_packageinfo", "gen_control"} =>
        (gen.err # "none" <=> ~(RequiredBy(gen.fn) \subseteq manifest.fields))

--------------------------------------------------------------------------
(* Claims about size resolution *)

IsInMemory(data) == data.kind \in {"str", "bytes"}

(* the number of bytes of the UTF-8 form of a code point below U+0800 *)
Utf8Width(c) == IF c < 128 THEN 1 ELSE 2

RECURSIVE ByteLength(_)
ByteLength(data) ==
    IF data.kind # "str" THEN Len(data.content)
    ELSE IF data.content = <<>> THEN 0
    ELSE Utf8Width(Head(data.content)) + ByteLength(StrData(Tail(data.content)))

(* the rule of the specification: explicit size, else in-memory length,
   else the end offset of a seekable stream, else failure *)
SizeRule(data, size) ==
    IF size # None THEN size
    ELSE IF IsInMemory(data) THEN Some(ByteLength(data))
    ELSE IF data.seekable THEN Some(Len(data.content))
    ELSE None

LastMember(c) == IF c.fn = "tar_addfile" THEN tar[Len(tar)] ELSE ar[Len(ar)]

(* C4: tar_addfile and ar_addfile resolve the size by one rule, and fail
   with the size-required error exactly when the rule gives no size *)
C4_SizeResolution ==
    \A i \in 1..Len(calls) :
        LET c == calls[i]
            want == SizeRule(c.data, c.size)
        IN  /\ (c.err = "ValueError") <=> (want = None)
            /\ (c.err = "none" /\ i = Len(calls)) => LastMember(c).size = want[1]

(* ar_addfile has sized a text of one code point by its two UTF-8 bytes *)
C4_Witness ==
    /\ Len(calls) = 1
    /\ calls[1].size = None
    /\ calls[1].fn = "ar_addfile"
    /\ calls[1].data = StrData(<<233>>)
    /\ ar[1].size = 2

====
